---- MODULE Spec2Model ----
(***************************************************************************)
(* Windowed statistics over a chunked one-dimensional array                *)
(* (sgkit/window.py).  Python arrays are TLA+ sequences; a Python index i  *)
(* is the TLA+ index i + 1.                                                *)
(***************************************************************************)
EXTENDS Integers, Sequences, FiniteSets

VARIABLES pc, input, plan, out, result, err, probe, gw

vars == <<pc, input, plan, out, result, err, probe, gw>>

(* ------------------------------ bounds --------------------------------- *)

MaxLen == 7
MaxChunks == 3
MaxSize == 3
MaxStep == 4
MaxDirectLen == 3
MaxWindows == 2
MaxProbes == 1
MaxStart == 2

(* --------------------------- numpy primitives --------------------------- *)

Min2(a, b) == IF a <= b THEN a ELSE b

Max2(a, b) == IF a >= b THEN a ELSE b

\* s[i] with a Python index: zero-based, a negative one counted from the end
At(s, i) == IF i < 0 THEN s[Len(s) + i + 1] ELSE s[i + 1]

\* s[i:j] for 0 <= i, 0 <= j: Python clamps both ends to len(s)
Slice(s, i, j) == SubSeq(s, i + 1, Min2(j, Len(s)))

RECURSIVE np_sum(_)
np_sum(s) == IF s = <<>> THEN 0 ELSE s[1] + np_sum(Tail(s))

RECURSIVE np_min(_)
np_min(s) == IF Len(s) = 1 THEN s[1] ELSE Min2(s[1], np_min(Tail(s)))

RECURSIVE np_max(_)
np_max(s) == IF Len(s) = 1 THEN s[1] ELSE Max2(s[1], np_max(Tail(s)))

\* arange with the stop included
RECURSIVE arange_inclusive(_, _, _)
arange_inclusive(start, stop, step) ==
  IF start > stop THEN <<>>
  ELSE <<start>> \o arange_inclusive(start + step, stop, step)

\* np.arange(start, stop, step), step >= 1
RECURSIVE arange(_, _, _)
arange(start, stop, step) ==
  IF start >= stop THEN <<>> ELSE <<start>> \o arange(start + step, stop, step)

\* clip without the upper bound
clip_below_only(x, lo, hi) == Max2(x, lo)

\* np.clip(x, lo, hi) = minimum(maximum(x, lo), hi)
clip(x, lo, hi) == Min2(Max2(x, lo), hi)

RECURSIVE cumsum(_)
cumsum(s) ==
  IF s = <<>> THEN <<>>
  ELSE LET p == cumsum(SubSeq(s, 1, Len(s) - 1))
       IN Append(p, (IF p = <<>> THEN 0 ELSE p[Len(p)]) + s[Len(s)])

\* side="left": the insertion point before every element >= v
RECURSIVE searchsorted_left(_, _)
searchsorted_left(a, v) ==
  IF a = <<>> \/ a[1] >= v THEN 0 ELSE 1 + searchsorted_left(Tail(a), v)

\* np.searchsorted(a, v, side="right") on a sorted a: the insertion point after
\* every element <= v
RECURSIVE searchsorted_right(_, _)
searchsorted_right(a, v) ==
  IF a = <<>> \/ a[1] > v THEN 0 ELSE 1 + searchsorted_right(Tail(a), v)

RECURSIVE sorted_values(_)
sorted_values(S) ==
  IF S = {} THEN <<>>
  ELSE LET m == CHOOSE x \in S : \A y \in S : x <= y
       IN <<m>> \o sorted_values(S \ {m})

\* np.unique(xs, return_counts=True)[1]: the number of occurrences of each
\* value that occurs, in increasing order of the values
unique_counts(xs) ==
  LET u == sorted_values({xs[i] : i \in DOMAIN xs})
  IN [j \in DOMAIN u |-> Cardinality({i \in DOMAIN xs : xs[i] = u[j]})]

(* ------------------------------ window.py ------------------------------- *)

_get_windows(start, stop, size, step) ==
  LET window_starts == arange(start, stop, step)
      window_stops == [i \in DOMAIN window_starts |->
                         clip(window_starts[i] + size, start, stop)]
  IN [window_starts |-> window_starts, window_stops |-> window_stops]

_sizes_to_start_offsets(sizes) == cumsum(<<0>> \o sizes)

_get_chunked_windows(chunks, length, window_starts, window_stops) ==
  LET chunk_starts == _sizes_to_start_offsets(chunks)
      chunk_numbers == [i \in DOMAIN window_starts |->
                          searchsorted_right(chunk_starts, window_starts[i]) - 1]
      rel_window_starts == [i \in DOMAIN window_starts |->
                              window_starts[i] - At(chunk_starts, chunk_numbers[i])]
      windows_per_chunk == unique_counts(chunk_numbers)
  IN [chunk_numbers |-> chunk_numbers,
      rel_window_starts |-> rel_window_starts,
      windows_per_chunk |-> windows_per_chunk]

\* the user-supplied reduction; np.sum in the documented example
statistic(x) == np_sum(x)

ErrMinChunk == "ValueError: Minimum chunk size must not be smaller than size"

ErrEmptyMax == "ValueError: zero-size array to reduction operation maximum"

ErrRechunkIndex == "IndexError: tuple index out of range"

ErrOverlapDepth == "ValueError: overlapping depth is larger than smallest chunk size"

ErrChunksMismatch == "ValueError: blocks and specified chunks differ in number"

ErrBlockIndex == "IndexError: index out of bounds for chunk_offsets"

\* the minimum over every chunk, the last one included
min_chunksize_all(chunks) == np_min(chunks)

\* moving_statistic: the chunk size the check looks at
min_chunksize(chunks) ==
  IF Len(chunks) > 1 THEN np_min(SubSeq(chunks, 1, Len(chunks) - 1))
  ELSE np_min(chunks)

\* the last chunk dropped instead of merged
new_chunk0_drop_last(chunk0) == SubSeq(chunk0, 1, Len(chunk0) - 1)

\* window_statistic: tuple(list(chunk0[:-2]) + [chunk0[-2] + chunk0[-1]])
new_chunk0(chunk0) ==
  SubSeq(chunk0, 1, Len(chunk0) - 2)
    \o <<chunk0[Len(chunk0) - 1] + chunk0[Len(chunk0)]>>

\* no rechunk at all
rechunk_never(chunk0, depth) == chunk0

\* window_statistic: values.chunks[0] after the conditional rechunk
rechunk(chunk0, depth) ==
  IF depth > chunk0[Len(chunk0)] THEN new_chunk0(chunk0) ELSE chunk0

NoPlan ==
  [stage |-> "none", error |-> "", window_starts |-> <<>>, window_stops |-> <<>>,
   window_lengths |-> <<>>, depth |-> 0, chunks |-> <<>>, chunk_numbers |-> <<>>,
   mapped_rel_starts |-> <<>>, windows_per_chunk |-> <<>>,
   rel_window_starts |-> <<>>, rel_window_stops |-> <<>>, chunk_offsets |-> <<>>]

\* window_statistic up to the map_overlap call: the plan the blocks read, or
\* the exception raised on the way
window_statistic(values, chunk0, window_starts, window_stops) ==
  LET length == Len(values)
      window_lengths == [i \in DOMAIN window_starts |->
                           window_stops[i] - window_starts[i]]
      got == [NoPlan EXCEPT !.stage = "windows",
                            !.window_starts = window_starts,
                            !.window_stops = window_stops,
                            !.window_lengths = window_lengths,
                            !.chunks = chunk0]
  IN IF Len(window_lengths) = 0 THEN [got EXCEPT !.error = ErrEmptyMax]
     ELSE LET depth == np_max(window_lengths)
          IN IF depth > chunk0[Len(chunk0)] /\ Len(chunk0) < 2
             THEN [got EXCEPT !.error = ErrRechunkIndex, !.depth = depth]
             ELSE LET chunks == rechunk(chunk0, depth)
                      m == _get_chunked_windows(chunks, length, window_starts,
                                                window_stops)
                      rel_window_starts == [i \in DOMAIN window_starts |->
                                              m.rel_window_starts[i] + depth]
                      rel_window_stops == [i \in DOMAIN window_starts |->
                                             rel_window_starts[i] + window_lengths[i]]
                  IN [got EXCEPT !.stage = "mapped",
                                 !.depth = depth,
                                 !.chunks = chunks,
                                 !.chunk_numbers = m.chunk_numbers,
                                 !.mapped_rel_starts = m.rel_window_starts,
                                 !.windows_per_chunk = m.windows_per_chunk,
                                 !.rel_window_starts = rel_window_starts,
                                 !.rel_window_stops = rel_window_stops,
                                 !.chunk_offsets =
                                   _sizes_to_start_offsets(m.windows_per_chunk)]

Pending == [state |-> "pending", rows |-> <<>>]

\* values.map_overlap(..., chunks=new_chunks, depth=depth, boundary=0,
\* trim=False): the runtime refuses a depth larger than a chunk; whether it
\* compares the declared output chunks with the number of blocks is the
\* runtime's choice (validates)
map_overlap(p, validates) ==
  IF p.depth > np_min(p.chunks) THEN [raised |-> ErrOverlapDepth, out |-> <<>>]
  ELSE IF validates /\ Len(p.windows_per_chunk) # Len(p.chunks)
  THEN [raised |-> ErrChunksMismatch, out |-> <<>>]
  ELSE [raised |-> "", out |-> [k \in 1..Len(p.chunks) |-> Pending]]

\* the block the runtime hands to chunk k (zero-based): the chunk extended by
\* depth elements on either side, 0 beyond the ends of the array
overlap_block(values, chunks, depth, k) ==
  LET first == At(_sizes_to_start_offsets(chunks), k) - depth
  IN [j \in 1..(At(chunks, k) + 2 * depth) |->
        LET g == first + j - 1
        IN IF g >= 0 /\ g < Len(values) THEN At(values, g) ELSE 0]

\* a block numbered by a counter the blocks share
chunk_location_shared(k, ran_before) == ran_before

\* block_info[0]["chunk-location"][0]: the ordinal of the block itself, whatever
\* the number of blocks that ran before it
chunk_location(k, ran_before) == k

\* blockwise_moving_stat with block information
blockwise_moving_stat(x, chunk_number, p) ==
  IF chunk_number + 1 >= Len(p.chunk_offsets)
  THEN [state |-> "raised", rows |-> <<>>]
  ELSE LET chunk_offset_start == At(p.chunk_offsets, chunk_number)
           chunk_offset_stop == At(p.chunk_offsets, chunk_number + 1)
           chunk_window_starts ==
             Slice(p.rel_window_starts, chunk_offset_start, chunk_offset_stop)
           chunk_window_stops ==
             Slice(p.rel_window_stops, chunk_offset_start, chunk_offset_stop)
       IN [state |-> "done",
           rows |-> [n \in DOMAIN chunk_window_starts |->
                       statistic(Slice(x, chunk_window_starts[n],
                                       chunk_window_stops[n]))]]

\* blockwise_moving_stat without block information
blockwise_probe == <<>>

RECURSIVE concat_rows(_)
concat_rows(blocks) ==
  IF blocks = <<>> THEN <<>> ELSE blocks[1].rows \o concat_rows(Tail(blocks))

\* the assembled array: the blocks' rows in chunk order, or the failure of a
\* block
compute(blocks) ==
  IF \E k \in DOMAIN blocks : blocks[k].state = "raised"
  THEN [ok |-> FALSE, rows |-> <<>>, error |-> ErrBlockIndex]
  ELSE [ok |-> TRUE, rows |-> concat_rows(blocks), error |-> ""]

NoResult == [ok |-> FALSE, rows |-> <<>>, error |-> ""]

(* ------------------------------- inputs --------------------------------- *)

\* chunk layouts of an array of length L: positive lengths summing to L; an
\* empty array has the one chunk of length 0
Layouts(L) ==
  IF L = 0 THEN {<<0>>}
  ELSE {c \in UNION {[1..n -> 1..L] : n \in 1..MaxChunks} : np_sum(c) = L}

Windows(L) == {w \in (0..(L - 1)) \X (0..L) : w[1] <= w[2]}

\* window sets over [0, L): starts in increasing order
WindowSets(L) ==
  {ws \in UNION {[1..n -> Windows(L)] : n \in 0..MaxWindows} :
     \A i \in DOMAIN ws : i = 1 \/ ws[i - 1][1] <= ws[i][1]}

MovingInput(L, c, s, t) ==
  [entry |-> "moving_statistic", values |-> arange(0, L, 1), chunks |-> c,
   size |-> s, step |-> t, window_starts |-> <<>>, window_stops |-> <<>>]

DirectInput(L, c, ws) ==
  [entry |-> "window_statistic", values |-> arange(0, L, 1), chunks |-> c,
   size |-> 0, step |-> 0,
   window_starts |-> [i \in DOMAIN ws |-> ws[i][1]],
   window_stops |-> [i \in DOMAIN ws |-> ws[i][2]]]

\* the documented example: arange(10) chunked (4, 3, 3), size 3, step 3
ExampleInput == MovingInput(10, <<4, 3, 3>>, 3, 3)

(* -------------------------- window() over a dataset --------------------- *)

GwInputs ==
  {[start |-> a, stop |-> b, size |-> s, step |-> t] :
     a \in 0..MaxStart, b \in 0..(MaxStart + MaxLen), s \in 1..(MaxLen + 1),
     t \in 1..(MaxLen + 1)}

GwIdle == [called |-> FALSE, start |-> 0, stop |-> 0, size |-> 1, step |-> 1,
           window_starts |-> <<>>, window_stops |-> <<>>]

NoProbe == [count |-> 0, returned |-> <<>>]

(* ------------------------------- pipeline ------------------------------- *)

Init ==
  /\ pc = "call"
  /\ \/ \E L \in 0..MaxLen, s \in 1..MaxSize, t \in 1..MaxStep :
          \E c \in Layouts(L) : input = MovingInput(L, c, s, t)
     \/ \E L \in 0..MaxDirectLen :
          \E c \in Layouts(L), ws \in WindowSets(L) : input = DirectInput(L, c, ws)
     \/ input = ExampleInput
  /\ plan = NoPlan
  /\ out = <<>>
  /\ result = NoResult
  /\ err = ""
  /\ probe = NoProbe
  /\ gw = GwIdle

\* window_statistic's outcome: the exception raised while planning or by
\* map_overlap, or the lazy array with its blocks pending
Scheduled(p, validates) ==
  LET m == map_overlap(p, validates)
      raised == IF p.error # "" THEN p.error ELSE m.raised
  IN /\ plan' = p
     /\ err' = raised
     /\ pc' = IF raised # "" THEN "raised" ELSE "scheduled"
     /\ out' = IF raised # "" THEN <<>> ELSE m.out
     /\ UNCHANGED <<input, result, probe, gw>>

MovingStatistic ==
  /\ pc = "call"
  /\ input.entry = "moving_statistic"
  /\ IF min_chunksize(input.chunks) < input.size
     THEN /\ pc' = "raised"
          /\ err' = ErrMinChunk
          /\ UNCHANGED <<input, plan, out, result, probe, gw>>
     ELSE LET w == _get_windows(0, Len(input.values), input.size, input.step)
          IN \E validates \in BOOLEAN :
               Scheduled(window_statistic(input.values, input.chunks,
                                          w.window_starts, w.window_stops),
                         validates)

WindowStatistic ==
  /\ pc = "call"
  /\ input.entry = "window_statistic"
  /\ \E validates \in BOOLEAN :
       Scheduled(window_statistic(input.values, input.chunks,
                                  input.window_starts, input.window_stops),
                 validates)

\* the runtime calls the block function without block information
Probe ==
  /\ pc = "scheduled"
  /\ probe.count < MaxProbes
  /\ probe' = [count |-> probe.count + 1, returned |-> blockwise_probe]
  /\ UNCHANGED <<pc, input, plan, out, result, err, gw>>

RanBefore == Cardinality({j \in DOMAIN out : out[j].state # "pending"})

\* the runtime runs the block of chunk k (zero-based), in any order
Block(k) ==
  /\ pc = "scheduled"
  /\ k + 1 \in DOMAIN out
  /\ out[k + 1].state = "pending"
  /\ out' = [out EXCEPT ![k + 1] =
               blockwise_moving_stat(
                 overlap_block(input.values, plan.chunks, plan.depth, k),
                 chunk_location(k, RanBefore), plan)]
  /\ UNCHANGED <<pc, input, plan, result, err, probe, gw>>

\* every block has run: the runtime assembles the array
Compute ==
  /\ pc = "scheduled"
  /\ \A j \in DOMAIN out : out[j].state # "pending"
  /\ result' = compute(out)
  /\ pc' = "done"
  /\ UNCHANGED <<input, plan, out, err, probe, gw>>

Next ==
  \/ MovingStatistic
  \/ WindowStatistic
  \/ Probe
  \/ \E k \in 0..(Len(out) - 1) : Block(k)
  \/ Compute

Spec == Init /\ [][Next]_vars

(* --------------------- the window boundary generator --------------------- *)

InitGetWindows ==
  /\ pc = "call"
  /\ input = ExampleInput
  /\ plan = NoPlan
  /\ out = <<>>
  /\ result = NoResult
  /\ err = ""
  /\ probe = NoProbe
  /\ \E a \in GwInputs :
       gw = [GwIdle EXCEPT !.start = a.start, !.stop = a.stop, !.size = a.size,
                           !.step = a.step]

GetWindows ==
  /\ ~gw.called
  /\ LET w == _get_windows(gw.start, gw.stop, gw.size, gw.step)
     IN gw' = [gw EXCEPT !.called = TRUE, !.window_starts = w.window_starts,
                         !.window_stops = w.window_stops]
  /\ UNCHANGED <<pc, input, plan, out, result, err, probe>>

NextGetWindows == GetWindows

SpecGetWindows == InitGetWindows /\ [][NextGetWindows]_vars

(* ------------------------------ properties ------------------------------ *)

CeilDiv(a, b) == (a + b - 1) \div b

Last(s) == s[Len(s)]

NonDecreasing(s) == \A i \in DOMAIN s : i = 1 \/ s[i - 1] <= s[i]

\* every window generated over [0, L) lies in the array and is no longer than
\* size
WindowsInRange ==
  \A i \in DOMAIN gw.window_starts :
    /\ 0 <= gw.window_starts[i]
    /\ gw.window_starts[i] < gw.window_stops[i]
    /\ gw.window_stops[i] <= gw.stop
    /\ gw.window_stops[i] - gw.window_starts[i] <= gw.size

\* C3 as stated: every window of _get_windows(0, L, S, T) satisfies
\* 0 <= start < stop <= L and stop - start <= S, and the last window's stop
\* equals L.
C3_LastStopIsLength ==
  (gw.called /\ gw.start = 0) =>
    /\ WindowsInRange
    /\ Len(gw.window_stops) > 0 => Last(gw.window_stops) = gw.stop

\* C3 amended: every window of _get_windows(0, L, S, T) satisfies
\* 0 <= start < stop <= L and stop - start <= S; the last window's stop is
\* min(last start + S, L), which equals L whenever S >= T.
C3_WindowsWithinArray ==
  (gw.called /\ gw.start = 0) =>
    /\ WindowsInRange
    /\ Len(gw.window_stops) = Len(gw.window_starts)
    /\ gw.stop >= 1 => Len(gw.window_starts) >= 1
    /\ Len(gw.window_stops) > 0 =>
         /\ Last(gw.window_stops) = Min2(Last(gw.window_starts) + gw.size, gw.stop)
         /\ gw.size >= gw.step => Last(gw.window_stops) = gw.stop

\* several windows over [0, L), a gap after each, the last one cut by the end
\* of the array
C3_Witness ==
  /\ gw.called
  /\ gw.start = 0
  /\ Len(gw.window_starts) >= 2
  /\ gw.size < gw.step
  /\ Last(gw.window_starts) + gw.size > gw.stop
  /\ Last(gw.window_stops) = gw.stop

\* C4: for 0 <= start < stop, size >= 1, step >= 1, _get_windows returns two
\* sequences of the same length n = ceil((stop - start) / step), with
\* starts[i] = start + i*step and stops[i] = min(starts[i] + size, stop), both
\* non-decreasing.
C4_WindowFormula ==
  (gw.called /\ gw.start < gw.stop) =>
    /\ Len(gw.window_starts) = CeilDiv(gw.stop - gw.start, gw.step)
    /\ Len(gw.window_stops) = Len(gw.window_starts)
    /\ \A i \in DOMAIN gw.window_starts :
         /\ gw.window_starts[i] = gw.start + (i - 1) * gw.step
         /\ gw.window_stops[i] = Min2(gw.window_starts[i] + gw.size, gw.stop)
    /\ NonDecreasing(gw.window_starts)
    /\ NonDecreasing(gw.window_stops)

\* a non-zero start, several windows, the step not dividing the extent, the
\* last window clamped
C4_Witness ==
  /\ gw.called
  /\ gw.start > 0
  /\ Len(gw.window_starts) >= 3
  /\ (gw.stop - gw.start) % gw.step # 0
  /\ Last(gw.window_stops) < Last(gw.window_starts) + gw.size

(* ----------------------- properties of the pipeline ---------------------- *)

Moving == input.entry = "moving_statistic"

Length == Len(input.values)

\* the global start offset of chunk c (zero-based) of a layout
Offset(chunks, c) == np_sum(SubSeq(chunks, 1, c))

\* the statistic of every window, taken from the unchunked array
Direct(values, starts, stops) ==
  [i \in DOMAIN starts |-> statistic(Slice(values, starts[i], stops[i]))]

\* C1 as stated: whenever moving_statistic accepts the layout, the result has
\* one row per generated window, in window order, and row i is the statistic
\* of values[start_i : stop_i].
C1_RowsMatchUnchunked ==
  (Moving /\ pc \in {"raised", "done"} /\ err # ErrMinChunk) =>
    /\ pc = "done"
    /\ result.ok
    /\ result.rows = Direct(input.values, plan.window_starts, plan.window_stops)

\* C2 as stated: moving_statistic raises the chunk-too-small error if and only
\* if some chunk other than the last is shorter than size.
C2_RaisesIffInteriorChunkSmall ==
  (Moving /\ pc # "call") =>
    ((err = ErrMinChunk) <=>
       \E i \in 1..(Len(input.chunks) - 1) : input.chunks[i] < input.size)

\* C2 amended: moving_statistic raises the chunk-too-small error if and only if
\* some chunk other than the last, or the only chunk of a single-chunk layout,
\* is shorter than size; the check passes when the layout has several chunks
\* and only the last is shorter than size; the error is raised before any
\* window is generated and before any block is scheduled.
C2_RaisesIffCheckedChunkSmall ==
  (Moving /\ pc # "call") =>
    /\ (err = ErrMinChunk) <=>
         \/ \E i \in 1..(Len(input.chunks) - 1) : input.chunks[i] < input.size
         \/ Len(input.chunks) = 1 /\ input.chunks[1] < input.size
    /\ err = ErrMinChunk => pc = "raised" /\ plan = NoPlan /\ out = <<>>
    /\ err # ErrMinChunk => plan.stage # "none"

\* several chunks, only the last shorter than size: accepted and scheduled
C2_Witness ==
  /\ Moving
  /\ pc = "scheduled"
  /\ Len(input.chunks) >= 2
  /\ Last(input.chunks) < input.size
  /\ \A i \in 1..(Len(input.chunks) - 1) : input.chunks[i] >= input.size

\* the elements of window i read from the chunked array: from its chunk, at its
\* relative start, on into the chunks that follow
ReadFromChunks(i) ==
  LET c == plan.chunk_numbers[i]
      following == SubSeq(input.values, Offset(plan.chunks, c) + 1, Length)
  IN Slice(following, plan.mapped_rel_starts[i],
           plan.mapped_rel_starts[i] + plan.window_lengths[i])

\* C5: every window start w in [0, L) is assigned the greatest chunk index c
\* whose start offset is <= w, with rel_start = w - offset(c), so that
\* 0 <= rel_start < chunk_length[c]; reading the window from that chunk at
\* rel_start gives the elements values[start : stop].
C5_ChunkAssignment ==
  plan.stage = "mapped" =>
    \A i \in DOMAIN plan.window_starts :
      LET w == plan.window_starts[i]
          c == plan.chunk_numbers[i]
          rel == plan.mapped_rel_starts[i]
      IN /\ c \in 0..(Len(plan.chunks) - 1)
         /\ Offset(plan.chunks, c) <= w
         /\ \A d \in 0..(Len(plan.chunks) - 1) :
              Offset(plan.chunks, d) <= w => d <= c
         /\ rel = w - Offset(plan.chunks, c)
         /\ 0 <= rel
         /\ rel < At(plan.chunks, c)
         /\ ReadFromChunks(i) = Slice(input.values, w, plan.window_stops[i])

\* a window that starts on the first element of a later chunk, and another that
\* starts inside a later chunk and runs into the next one
C5_Witness ==
  /\ plan.stage = "mapped"
  /\ \E i \in DOMAIN plan.window_starts :
       plan.chunk_numbers[i] >= 1 /\ plan.mapped_rel_starts[i] = 0
  /\ \E i \in DOMAIN plan.window_starts :
       /\ plan.chunk_numbers[i] >= 1
       /\ plan.mapped_rel_starts[i] > 0
       /\ plan.window_stops[i] > Offset(plan.chunks, plan.chunk_numbers[i] + 1)

\* C6 as stated: windows_per_chunk has one count per chunk of the final layout,
\* entry k being the number of windows that start in chunk k (zero when none
\* does), the counts summing to the number of windows; chunk_offsets[k] and
\* chunk_offsets[k + 1] exist for every chunk k.
C6_OneCountPerChunk ==
  plan.stage = "mapped" =>
    /\ Len(plan.windows_per_chunk) = Len(plan.chunks)
    /\ \A k \in 0..(Len(plan.chunks) - 1) :
         At(plan.windows_per_chunk, k) =
           Cardinality({i \in DOMAIN plan.window_starts :
                          /\ Offset(plan.chunks, k) <= plan.window_starts[i]
                          /\ plan.window_starts[i] < Offset(plan.chunks, k + 1)})
    /\ np_sum(plan.windows_per_chunk) = Len(plan.window_starts)
    /\ Len(plan.chunk_offsets) = Len(plan.chunks) + 1

LastTwo(chunks) ==
  IF Len(chunks) >= 2 THEN chunks[Len(chunks) - 1] + chunks[Len(chunks)]
  ELSE chunks[Len(chunks)]

\* C7 as stated: for every chunk layout and window set, after the merge step
\* depth <= length of the last chunk, a second application leaves the layout
\* unchanged, and the layout still sums to L.
C7_MergeIsFixedPoint ==
  plan.stage = "mapped" =>
    /\ np_sum(plan.chunks) = Length
    /\ rechunk(plan.chunks, plan.depth) = plan.chunks
    /\ plan.depth <= Last(plan.chunks)

\* C7 amended: whenever depth does not exceed the combined length of the last
\* two chunks of the input layout, and so for every layout moving_statistic
\* accepts, after the merge step depth <= length of the last chunk and a second
\* application leaves the layout unchanged; in every case the layout still
\* sums to L.
C7_MergeIsFixedPointWhenCovered ==
  plan.stage = "mapped" =>
    /\ np_sum(plan.chunks) = Length
    /\ Moving => plan.depth <= LastTwo(input.chunks)
    /\ plan.depth <= LastTwo(input.chunks) =>
         /\ rechunk(plan.chunks, plan.depth) = plan.chunks
         /\ plan.depth <= Last(plan.chunks)

\* moving_statistic merged the last two of three chunks
C7_Witness ==
  /\ Moving
  /\ plan.stage = "mapped"
  /\ Len(input.chunks) = 3
  /\ plan.chunks = <<input.chunks[1], input.chunks[2] + input.chunks[3]>>

\* C8 as stated: with no windows at all (an empty array, or empty window_starts
\* and window_stops) the pipeline does not fail, resolves depth = 0 and
\* completes with an empty result.
C8_EmptyWindowSetCompletes ==
  (pc # "call" /\ (Length = 0 \/ (~Moving /\ input.window_starts = <<>>))) =>
    /\ pc # "raised"
    /\ plan.depth = 0
    /\ pc = "done" => result.ok /\ result.rows = <<>>

\* C9: for every input moving_statistic accepts, after the merge the depth is
\* <= the length of every chunk of the final layout, every window ends no later
\* than the end of the chunk after the one it starts in, and its slice
\* [rel_start + depth, rel_start + depth + window_length) lies inside the
\* block of its chunk and holds the window's elements.
C9_WindowWithinHalo ==
  (Moving /\ plan.stage = "mapped") =>
    /\ \A k \in DOMAIN plan.chunks : plan.depth <= plan.chunks[k]
    /\ \A i \in DOMAIN plan.window_starts :
         LET c == plan.chunk_numbers[i]
             x == overlap_block(input.values, plan.chunks, plan.depth, c)
         IN /\ plan.window_stops[i] <=
                 Offset(plan.chunks, Min2(c + 2, Len(plan.chunks)))
            /\ 0 <= plan.rel_window_starts[i]
            /\ plan.rel_window_stops[i] <= Len(x)
            /\ plan.rel_window_stops[i] - plan.rel_window_starts[i]
                 = plan.window_lengths[i]
            /\ Slice(x, plan.rel_window_starts[i], plan.rel_window_stops[i]) =
                 Slice(input.values, plan.window_starts[i], plan.window_stops[i])

\* an accepted layout whose last two chunks were merged, with a window that
\* runs over a chunk boundary
C9_Witness ==
  /\ Moving
  /\ plan.stage = "mapped"
  /\ Len(plan.chunks) >= 2
  /\ plan.chunks # input.chunks
  /\ \E i \in DOMAIN plan.window_starts :
       plan.window_stops[i] > Offset(plan.chunks, plan.chunk_numbers[i] + 1)

\* the blocks' outputs when the blocks run one after the other in chunk order
InOrder ==
  [k \in DOMAIN out |->
     blockwise_moving_stat(
       overlap_block(input.values, plan.chunks, plan.depth, k - 1),
       chunk_location(k - 1, k - 1), plan)]

\* the windows chunk k (zero-based) writes: [chunk_offsets[k], chunk_offsets[k+1])
Rows(k) ==
  IF k + 1 >= Len(plan.chunk_offsets) THEN {}
  ELSE At(plan.chunk_offsets, k)..(At(plan.chunk_offsets, k + 1) - 1)

\* the plan the call computed from its input
PlanOf ==
  IF Moving
  THEN LET w == _get_windows(0, Length, input.size, input.step)
       IN window_statistic(input.values, input.chunks, w.window_starts,
                           w.window_stops)
  ELSE window_statistic(input.values, input.chunks, input.window_starts,
                        input.window_stops)

\* C10: in whatever order the blocks run, each block that has run holds the
\* output it has when the blocks run in chunk order, and so does the assembled
\* result; the plan stays as the call computed it; the row ranges of different
\* chunks are disjoint and together cover all windows; a call without block
\* information returns an empty result.
C10_BlocksOrderIndependent ==
  pc \in {"scheduled", "done"} =>
    /\ plan = PlanOf
    /\ \A k \in DOMAIN out : out[k].state # "pending" => out[k] = InOrder[k]
    /\ pc = "done" => result = compute(InOrder)
    /\ \A j, k \in 0..(Len(out) - 1) : j # k => Rows(j) \cap Rows(k) = {}
    /\ UNION {Rows(k) : k \in 0..(Len(out) - 1)} =
         0..(Len(plan.window_starts) - 1)
    /\ probe.returned = <<>>

\* three blocks, the last of them run first and alone so far, after the
\* runtime's call without block information
C10_Witness ==
  /\ pc = "scheduled"
  /\ Len(out) = 3
  /\ out[3].state = "done"
  /\ out[3].rows # <<>>
  /\ out[1].state = "pending"
  /\ out[2].state = "pending"
  /\ probe.count >= 1

====
